---- MODULE Spec2Model ----
(***************************************************************************)
(* A model of the interactive shell of app/main.c and src/lab.c: the       *)
(* read-eval loop, the built-in dispatcher and the foreground-execution    *)
(* protocol (fork, process groups, terminal ownership, signals, wait).     *)
(*                                                                         *)
(* Every process that runs the shell's program text (the shell itself and  *)
(* each forked child until it replaces its image) is a program counter     *)
(* over the same labels, named after the statements of main.  The kernel   *)
(* state the protocol uses (process groups, the terminal's foreground      *)
(* group, signal dispositions, zombies) is modelled beside it.             *)
(***************************************************************************)
EXTENDS Integers, Sequences, FiniteSets, TLC

\* ------------------------------------------------------------------ bounds
\* the number of lines the user types before end of input
MaxLines == 2
\* the number of processes fork can create
MaxChildren == 2

\* ------------------------------------------------------- process identities
\* the process group of the program that launched the shell
LauncherPgid == 1
\* getpid() of the shell
ShellPid == 2
FirstChild == ShellPid + 1
Children == FirstChild .. (FirstChild + MaxChildren - 1)
Pids == {ShellPid} \cup Children
NoPid == 0

\* --------------------------------------------------------------- signals
JobSignals == {"SIGINT", "SIGQUIT", "SIGTSTP", "SIGTTIN", "SIGTTOU"}
KeyboardSignals == {"SIGINT", "SIGQUIT", "SIGTSTP"}
StopSignals == {"SIGTSTP", "SIGTTIN", "SIGTTOU"}
AllDefault == [s \in JobSignals |-> "SIG_DFL"]
AllIgnored == [s \in JobSignals |-> "SIG_IGN"]

\* ------------------------------------------------------------ environment
\* Text is a sequence of atoms: SP is one blank, any other atom is a run of
\* non-blank characters.
SP == " "
Lines ==
  { <<>>, <<SP>>, <<"ls">>, <<SP, "ls", SP, SP, "-la", SP>>, <<"nosuch">>,
    <<"cd">>, <<"cd", SP, "/tmp">>, <<"cd", SP, "/nonexistent">>,
    <<"jobs">>, <<"exit">> }
\* directories chdir can enter
ExistingDirs == {"/tmp", "/home/user"}
\* pw_dir of the current user in the password database
PwDir == "/home/user"
StartDir == "/start"
\* what getenv("HOME") can return
HomeValues == {"NULL", "/tmp"}
\* programs execvp finds on PATH; "cd" exists as a program on some systems
Installed == {"ls"}
MaybeInstalled == {"cd"}
\* exit codes of an external program
ExitCodes == {0, 1}
EXIT_SUCCESS == 0
EXIT_FAILURE == 1

VARIABLES
  pc,        \* [Pids -> label]: the statement each process is at
  pstate,    \* [Pids -> "absent" | "running" | "stopped" | "zombie" | "reaped"]
  tstatus,   \* [Pids -> the status a terminated/stopped process reports]
  parent,    \* [Pids -> pid of the forking process, NoPid for the shell]
  pgid,      \* [Pids -> process group id]
  sig,       \* [Pids -> [JobSignals -> "SIG_DFL" | "SIG_IGN"]]
  execd,     \* [Pids -> BOOLEAN]: the process has replaced its image
  tty_fg,    \* the foreground process group of the controlling terminal
  sh,        \* struct shell
  loc,       \* [Pids -> main's locals: line, cmd, pid, status, rval]
  history,   \* readline's history list
  cwd,       \* the shell's working directory
  stderr,    \* <<pid, message>> written to stderr since the last prompt
  env,       \* what the shell is started in (fixed for a run)
  nlines,    \* lines read so far
  typed,     \* the lines readline has returned, as they were typed
  stdout,    \* <<number, line>> written to stdout since the last prompt
  heap       \* the shell's live allocations: line buffers, argument vectors

vars == <<pc, pstate, tstatus, parent, pgid, sig, execd, tty_fg, sh, loc,
          history, cwd, stderr, env, nlines, typed, stdout, heap>>

kernel == <<pstate, tstatus, parent, pgid, sig, execd, tty_fg>>
\* what the loop reads, prints and allocates
io == <<typed, stdout, heap>>

NoStatus == [kind |-> "none", val |-> 0]
Uninit == [kind |-> "uninit", val |-> 0]
Exited(c) == [kind |-> "exited", val |-> c]
Signaled(s) == [kind |-> "signaled", val |-> s]
Stopped(s) == [kind |-> "stopped", val |-> s]
Continued == [kind |-> "continued", val |-> 0]

NoLocals == [line |-> <<>>, off |-> 0, cmd |-> <<>>, pid |-> NoPid,
             status |-> Uninit, rval |-> 0]

\* ------------------------------------------------------------------ kernel
Alive(p) == pstate[p] \in {"running", "stopped"}
Running(p) == pstate[p] = "running"
\* a process stays a member of its group until it is reaped
InTable(p) == pstate[p] \in {"running", "stopped", "zombie"}
GroupExists(g) == g = LauncherPgid \/ \E q \in Pids : InTable(q) /\ pgid[q] = g

\* SIGCHLD set to SIG_IGN in the parent: a terminated child leaves no zombie
AutoReaped(p) == parent[p] = ShellPid /\ env.sigchld_ignored

\* the state of p after it terminates
DeadState(p) == IF p # ShellPid /\ (AutoReaped(p) \/ ~InTable(parent[p]))
                THEN "reaped" ELSE "zombie"

\* the processes of D terminate reporting st: the memory of each is gone, a
\* zombie keeps its status and its group until it is reaped, and a process
\* nobody waits for leaves the process table at once
KillSet(D, st) ==
  /\ pstate' = [q \in Pids |-> IF q \in D THEN DeadState(q) ELSE pstate[q]]
  /\ tstatus' = [q \in Pids |-> IF q \in D
                    THEN (IF DeadState(q) = "zombie" THEN st ELSE NoStatus)
                    ELSE tstatus[q]]
  /\ pgid' = [q \in Pids |-> IF q \in D /\ DeadState(q) = "reaped" THEN NoPid
                             ELSE pgid[q]]
  /\ execd' = [q \in Pids |-> IF q \in D /\ DeadState(q) = "reaped" THEN FALSE
                              ELSE execd[q]]
  /\ sig' = [q \in Pids |-> IF q \in D THEN AllDefault ELSE sig[q]]
  /\ loc' = [q \in Pids |-> IF q \in D THEN NoLocals ELSE loc[q]]
  /\ pc' = [q \in Pids |-> IF q \in D THEN "exited" ELSE pc[q]]

\* p terminates reporting st
Terminate(p, st) == KillSet({p}, st)

Goto(p, label) == pc' = [pc EXCEPT ![p] = label]

\* setpgid(target, target) called by p: 0 or -1.  ESRCH: target is neither
\* the caller nor a child of the caller; EACCES: the child has executed an
\* execve; EPERM: the target is a session leader.
setpgid_rc(p, target) ==
  LET t == IF target = 0 THEN p ELSE target IN
  IF t \notin Pids THEN -1
  ELSE IF ~(t = p \/ (parent[t] = p /\ InTable(t))) THEN -1
  ELSE IF t # p /\ execd[t] THEN -1
  ELSE IF t = ShellPid /\ env.session_leader THEN -1
  ELSE 0

setpgid_new(p, target) ==
  LET t == IF target = 0 THEN p ELSE target IN
  IF setpgid_rc(p, target) = 0 THEN [pgid EXCEPT ![t] = t] ELSE pgid

\* tcsetpgrp(sh.shell_terminal, g) called by p:
\*   "enotty"  the descriptor is not a terminal
\*   "eperm"   g names no process group of the session
\*   "sigttou" the caller is in a background group and does not ignore
\*             SIGTTOU: the signal is sent and the call does not complete
\*   "ok"      g becomes the foreground group
tcsetpgrp_outcome(p, g) ==
  IF ~env.isatty THEN "enotty"
  ELSE IF g <= 0 \/ ~GroupExists(g) THEN "eperm"
  ELSE IF pgid[p] # tty_fg /\ sig[p]["SIGTTOU"] = "SIG_DFL" THEN "sigttou"
  ELSE "ok"

\* the effect of tcsetpgrp on <<tty_fg, pstate, tstatus>>; TRUE when the call
\* returned (the caller was not stopped by SIGTTOU)
tcsetpgrp(p, g) ==
  LET o == tcsetpgrp_outcome(p, g) IN
  /\ tty_fg' = IF o = "ok" THEN g ELSE tty_fg
  /\ pstate' = IF o = "sigttou" THEN [pstate EXCEPT ![p] = "stopped"] ELSE pstate
  /\ tstatus' = IF o = "sigttou" THEN [tstatus EXCEPT ![p] = Stopped("SIGTTOU")]
                ELSE tstatus

tcsetpgrp_returns(p, g) == tcsetpgrp_outcome(p, g) # "sigttou"

\* ------------------------------------------------------------- initial state
EnvChoices ==
  [isatty : BOOLEAN, session_leader : BOOLEAN, sigchld_ignored : BOOLEAN,
   HOME : HomeValues]

\* the group the shell starts in and the terminal's foreground group then: a
\* session leader leads its own group, and the foreground group exists
StartGroups ==
  { g \in [pgid : {LauncherPgid, ShellPid}, fg : {LauncherPgid, ShellPid}] :
      g.fg = ShellPid => g.pgid = ShellPid }

Init ==
  /\ env \in EnvChoices
  /\ \E g \in StartGroups :
       /\ env.session_leader => g.pgid = ShellPid
       /\ pgid = [p \in Pids |-> IF p = ShellPid THEN g.pgid ELSE NoPid]
       /\ tty_fg = g.fg
  /\ pc = [p \in Pids |-> IF p = ShellPid THEN "sh_init" ELSE "none"]
  /\ pstate = [p \in Pids |-> IF p = ShellPid THEN "running" ELSE "absent"]
  /\ tstatus = [p \in Pids |-> NoStatus]
  /\ parent = [p \in Pids |-> NoPid]
  /\ sig = [p \in Pids |-> AllDefault]
  /\ execd = [p \in Pids |-> FALSE]
  /\ sh = [shell_terminal |-> 0, shell_is_interactive |-> FALSE,
           shell_pgid |-> NoPid, prompt |-> "unset"]
  /\ loc = [p \in Pids |-> NoLocals]
  /\ history = <<>>
  /\ cwd = StartDir
  /\ stderr = {}
  /\ nlines = 0
  /\ typed = <<>>
  /\ stdout = <<>>
  /\ heap = [line |-> 0, cmd |-> 0]


\* ------------------------------------------------------------- pure helpers
RECURSIVE DropLeadingSpace(_)
DropLeadingSpace(l) ==
  IF l # <<>> /\ Head(l) = SP THEN DropLeadingSpace(Tail(l)) ELSE l

RECURSIVE DropTrailingSpace(_)
DropTrailingSpace(l) ==
  IF Len(l) > 1 /\ l[Len(l)] = SP
  THEN DropTrailingSpace(SubSeq(l, 1, Len(l) - 1)) ELSE l

\* trim_white without the loop over the leading blanks
trim_white_trailingOnly(l) == IF l = <<>> THEN l ELSE DropTrailingSpace(l)

\* trim_white: skip the leading blanks; if nothing is left return; else cut
\* the trailing blanks
trim_white(l) ==
  LET lead == DropLeadingSpace(l) IN
  IF lead = <<>> THEN lead ELSE DropTrailingSpace(lead)

\* how far the pointer trim_white returns lies behind its argument: the
\* leading blanks it stepped over
trim_offset(l) == Len(l) - Len(DropLeadingSpace(l))

\* sysconf(_SC_ARG_MAX)
ArgMax == 2097152

\* cmd_parse: strtok_r on " ", at most ArgMax - 1 tokens
RECURSIVE Tokens(_, _)
Tokens(l, i) ==
  LET rest == DropLeadingSpace(l) IN
  IF rest = <<>> \/ ~(i < ArgMax - 1) THEN <<>>
  ELSE <<Head(rest)>> \o Tokens(Tail(rest), i + 1)

cmd_parse(l) == Tokens(l, 0)

\* change_dir: <<return value, new working directory, messages>>
chdir_rc(path) == IF path \in ExistingDirs THEN 0 ELSE -1

change_dir(dir, home, dirNow) ==
  IF Len(dir) < 2
  THEN IF home = "NULL"
       THEN <<-1, dirNow, {"cd: HOME not set"}>>
       ELSE LET myHome == IF home = "NULL" THEN PwDir ELSE home IN
            <<chdir_rc(myHome), IF chdir_rc(myHome) = 0 THEN myHome ELSE dirNow,
              {}>>
  ELSE <<chdir_rc(dir[2]), IF chdir_rc(dir[2]) = 0 THEN dir[2] ELSE dirNow, {}>>

\* the listing numbered from the array index
jobs_listing_fromZero(h) == [i \in 1..Len(h) |-> <<i - 1, h[i]>>]

\* readline's history_base
history_base == 1
\* what the jobs built-in prints: one numbered line per history entry
jobs_listing(h) == [i \in 1..Len(h) |-> <<(i - 1) + history_base, h[i]>>]

\* do_builtin's return value for cd and jobs and for any other first
\* argument ("exit" does not return)
do_builtin_rv(argv, home, dirNow) ==
  IF argv = <<>> THEN FALSE
  ELSE IF argv[1] = "cd" THEN change_dir(argv, home, dirNow)[1] = 0
  ELSE IF argv[1] = "jobs" THEN TRUE
  ELSE FALSE

\* setup_signal_handlers with the SIGTSTP line left out
setup_signal_handlers_partial(d) ==
  [d EXCEPT !["SIGINT"] = "SIG_IGN", !["SIGQUIT"] = "SIG_IGN",
            !["SIGTTIN"] = "SIG_IGN", !["SIGTTOU"] = "SIG_IGN"]

\* setup_signal_handlers with the SIGTTOU line left out
setup_signal_handlers_noTtou(d) ==
  [d EXCEPT !["SIGINT"] = "SIG_IGN", !["SIGQUIT"] = "SIG_IGN",
            !["SIGTSTP"] = "SIG_IGN", !["SIGTTIN"] = "SIG_IGN"]

\* setup_signal_handlers: the dispositions after the five signal() calls
setup_signal_handlers(d) ==
  [d EXCEPT !["SIGINT"] = "SIG_IGN", !["SIGQUIT"] = "SIG_IGN",
            !["SIGTSTP"] = "SIG_IGN", !["SIGTTIN"] = "SIG_IGN",
            !["SIGTTOU"] = "SIG_IGN"]

\* the child branch without its own tcsetpgrp (the parent alone hands over
\* the terminal)
ChildSteps_noTcsetpgrp ==
  <<"c_setpgid", "c_sigint", "c_sigquit", "c_sigtstp", "c_sigttin",
    "c_sigttou", "c_execvp">>

\* the child branch restoring the dispositions first
ChildSteps_signalsFirst ==
  <<"c_sigint", "c_sigquit", "c_sigtstp", "c_sigttin", "c_sigttou",
    "c_setpgid", "c_tcsetpgrp", "c_execvp">>

\* the statements of the child branch, in program order
ChildSteps ==
  <<"c_setpgid", "c_tcsetpgrp", "c_sigint", "c_sigquit", "c_sigtstp",
    "c_sigttin", "c_sigttou", "c_execvp">>

ChildLabels == {ChildSteps[i] : i \in 1..Len(ChildSteps)}

\* the statement after `label` in the child branch
ChildNext(label) ==
  LET i == CHOOSE j \in 1..Len(ChildSteps) : ChildSteps[j] = label IN
  ChildSteps[i + 1]

\* execvp(name, ...) can succeed
CanExec(name) == name \in Installed \cup MaybeInstalled
CanFailExec(name) == name \notin Installed

\* ------------------------------------------------------------------ sh_init
\* lab.c 24-27
ShInit(p) ==
  /\ Running(p) /\ pc[p] = "sh_init"
  /\ sh' = [shell_terminal |-> 0, shell_is_interactive |-> env.isatty,
            prompt |-> "shell>", shell_pgid |-> p]
  /\ Goto(p, "init_loop")
  /\ UNCHANGED <<kernel, loc, history, cwd, stderr, env, io, nlines>>

\* lab.c 30-33: one evaluation of the loop condition, and the kill
InitLoop(p) ==
  /\ Running(p) /\ pc[p] = "init_loop"
  /\ IF sh.shell_is_interactive
     THEN /\ sh' = [sh EXCEPT !.shell_pgid = pgid[p]]
          /\ IF tty_fg # pgid[p]
             THEN \* kill(-shell_pgid, SIGTTIN)
                  /\ IF sig[p]["SIGTTIN"] = "SIG_DFL"
                     THEN /\ pstate' = [pstate EXCEPT ![p] = "stopped"]
                          /\ tstatus' = [tstatus EXCEPT ![p] = Stopped("SIGTTIN")]
                     ELSE UNCHANGED <<pstate, tstatus>>
                  /\ UNCHANGED pc
             ELSE /\ Goto(p, "init_setpgid")
                  /\ UNCHANGED <<pstate, tstatus>>
     ELSE /\ Goto(p, "init_setpgid")
          /\ UNCHANGED <<sh, pstate, tstatus>>
  /\ UNCHANGED <<parent, pgid, sig, execd, tty_fg, loc, history, cwd, stderr,
                 env, io, nlines>>

\* setpgid called without the test of its return value
InitSetpgid_unchecked(p) ==
  /\ Running(p) /\ pc[p] = "init_setpgid"
  /\ pgid' = IF setpgid_rc(p, sh.shell_pgid) < 0 THEN pgid
             ELSE setpgid_new(p, sh.shell_pgid)
  /\ Goto(p, "setup_signals")
  /\ UNCHANGED <<pstate, tstatus, parent, sig, execd, tty_fg, sh, loc, history,
                 cwd, stderr, env, io, nlines>>

\* lab.c 39-42
InitSetpgid(p) ==
  /\ Running(p) /\ pc[p] = "init_setpgid"
  /\ IF setpgid_rc(p, sh.shell_pgid) < 0
     THEN /\ stderr' = stderr \cup {<<p, "setpgid">>}
          /\ Terminate(p, Exited(1))
     ELSE /\ pgid' = setpgid_new(p, sh.shell_pgid)
          /\ Goto(p, "setup_signals")
          /\ UNCHANGED <<stderr, pstate, tstatus, sig, execd, loc>>
  /\ UNCHANGED <<parent, tty_fg, sh, history, cwd, env, io, nlines>>

\* main.c 51
SetupSignals(p) ==
  /\ Running(p) /\ pc[p] = "setup_signals"
  /\ sig' = [sig EXCEPT ![p] = setup_signal_handlers(sig[p])]
  /\ Goto(p, "readline")
  /\ UNCHANGED <<pstate, tstatus, parent, pgid, execd, tty_fg, sh, loc,
                 history, cwd, stderr, env, io, nlines>>


\* ---------------------------------------------------------- read-eval loop
\* main.c 56: the prompt is shown and a line is read, or input ends
Readline(p) ==
  /\ Running(p) /\ pc[p] = "readline"
  /\ \/ /\ nlines < MaxLines
        /\ \E l \in Lines : /\ loc' = [loc EXCEPT ![p].line = l]
                          /\ typed' = Append(typed, l)
        /\ nlines' = nlines + 1
        /\ heap' = [heap EXCEPT !.line = @ + 1]
        /\ Goto(p, "trim")
     \/ /\ Goto(p, "sh_destroy")
        /\ UNCHANGED <<loc, nlines, typed, heap>>
  /\ stderr' = {}
  /\ stdout' = <<>>
  /\ UNCHANGED <<kernel, sh, history, cwd, env>>

\* free(line) in main, then control goes to next.  The buffer is released
\* when line is the address readline returned; for any other address the
\* call is undefined: the allocator aborts the process, or the call returns
\* and the buffer stays allocated
free_line(p, off, next) ==
  IF off = 0
  THEN /\ heap' = [heap EXCEPT !.line = @ - 1]
       /\ loc' = [loc EXCEPT ![p] = NoLocals]
       /\ Goto(p, next)
       /\ UNCHANGED <<pstate, tstatus, pgid, sig, execd>>
  ELSE \/ /\ Terminate(p, Signaled("SIGABRT"))
          /\ UNCHANGED heap
       \/ /\ loc' = [loc EXCEPT ![p] = NoLocals]
          /\ Goto(p, next)
          /\ UNCHANGED <<heap, pstate, tstatus, pgid, sig, execd>>

\* main.c 59-64: line = trim_white(line); an empty result is freed and the
\* loop continues
Trim(p) ==
  /\ Running(p) /\ pc[p] = "trim"
  /\ LET t == trim_white(loc[p].line)
         o == trim_offset(loc[p].line) IN
     IF t = <<>>
     THEN free_line(p, o, "readline")
     ELSE /\ loc' = [loc EXCEPT ![p].line = t, ![p].off = o]
          /\ Goto(p, "add_history")
          /\ UNCHANGED <<heap, pstate, tstatus, pgid, sig, execd>>
  /\ UNCHANGED <<parent, tty_fg, sh, history, cwd, stderr, env, typed, stdout,
                 nlines>>

\* main.c 65
AddHistory(p) ==
  /\ Running(p) /\ pc[p] = "add_history"
  /\ history' = Append(history, loc[p].line)
  /\ Goto(p, "cmd_parse")
  /\ UNCHANGED <<kernel, sh, loc, cwd, stderr, env, io, nlines>>

\* main.c 67
CmdParse(p) ==
  /\ Running(p) /\ pc[p] = "cmd_parse"
  /\ loc' = [loc EXCEPT ![p].cmd = cmd_parse(loc[p].line)]
  /\ heap' = [heap EXCEPT !.cmd = @ + 1]
  /\ Goto(p, "do_builtin")
  /\ UNCHANGED <<kernel, sh, history, cwd, stderr, env, typed, stdout, nlines>>

\* main.c 68 with lab.c 187-218: exit(0) inside do_builtin, or the call
\* returns and main branches on its value
DoBuiltin(p) ==
  /\ Running(p) /\ pc[p] = "do_builtin"
  /\ LET argv == loc[p].cmd IN
     IF argv # <<>> /\ argv[1] = "exit"
     THEN /\ Terminate(p, Exited(0))
          /\ UNCHANGED <<cwd, stderr, stdout>>
     ELSE /\ IF argv # <<>> /\ argv[1] = "cd"
             THEN LET r == change_dir(argv, env.HOME, cwd) IN
                  /\ cwd' = r[2]
                  /\ stderr' = stderr \cup {<<p, m>> : m \in r[3]}
             ELSE UNCHANGED <<cwd, stderr>>
          /\ IF argv # <<>> /\ argv[1] = "jobs"
             THEN stdout' = jobs_listing(history)
             ELSE UNCHANGED stdout
          /\ Goto(p, IF do_builtin_rv(argv, env.HOME, cwd)
                     THEN "free_line" ELSE "fork")
          /\ UNCHANGED <<pstate, tstatus, pgid, sig, execd, loc>>
  /\ UNCHANGED <<parent, tty_fg, sh, history, env, typed, heap, nlines>>

FreePid == CHOOSE c \in Children : pstate[c] = "absent" /\
                 \A d \in Children : d < c => pstate[d] # "absent"

\* main.c 70-72, 88: fork returns 0 in a new child and the child's pid in the
\* parent, or -1
Fork(p) ==
  /\ Running(p) /\ pc[p] = "fork"
  /\ \/ /\ \E c \in Children : pstate[c] = "absent"
        /\ LET c == FreePid IN
           /\ pstate' = [pstate EXCEPT ![c] = "running"]
           /\ parent' = [parent EXCEPT ![c] = p]
           /\ pgid' = [pgid EXCEPT ![c] = pgid[p]]
           /\ sig' = [sig EXCEPT ![c] = sig[p]]
           /\ loc' = [loc EXCEPT ![c] = [loc[p] EXCEPT !.pid = 0], ![p].pid = c]
           /\ pc' = [pc EXCEPT ![c] = ChildSteps[1], ![p] = "p_setpgid"]
     \/ /\ loc' = [loc EXCEPT ![p].pid = -1]
        /\ Goto(p, "fork_failed")
        /\ UNCHANGED <<pstate, parent, pgid, sig>>
  /\ UNCHANGED <<tstatus, execd, tty_fg, sh, history, cwd, stderr, env, io, nlines>>

\* main.c 91-92
ForkFailed(p) ==
  /\ Running(p) /\ pc[p] = "fork_failed"
  /\ stderr' = stderr \cup {<<p, "fork return < 0 Process creation failed!">>}
  /\ Terminate(p, Signaled("SIGABRT"))
  /\ UNCHANGED <<parent, tty_fg, sh, history, cwd, env, io, nlines>>

\* ------------------------------------------------------------ child branch
\* main.c 75-76
ChildSetpgid(p) ==
  /\ Running(p) /\ pc[p] = "c_setpgid"
  /\ pgid' = setpgid_new(p, p)
  /\ Goto(p, ChildNext("c_setpgid"))
  /\ UNCHANGED <<pstate, tstatus, parent, sig, execd, tty_fg, sh, loc, history,
                 cwd, stderr, env, io, nlines>>

\* main.c 77
ChildTcsetpgrp(p) ==
  /\ Running(p) /\ pc[p] = "c_tcsetpgrp"
  /\ tcsetpgrp(p, p)
  /\ IF tcsetpgrp_returns(p, p) THEN Goto(p, ChildNext("c_tcsetpgrp"))
     ELSE UNCHANGED pc
  /\ UNCHANGED <<parent, pgid, sig, execd, sh, loc, history, cwd, stderr, env, io,
                 nlines>>

\* the signal each of main.c 78-82 sets to SIG_DFL
ChildSignalOf(label) ==
  CASE label = "c_sigint" -> "SIGINT"
    [] label = "c_sigquit" -> "SIGQUIT"
    [] label = "c_sigtstp" -> "SIGTSTP"
    [] label = "c_sigttin" -> "SIGTTIN"
    [] label = "c_sigttou" -> "SIGTTOU"

\* main.c 78-82, one call per step
ChildSignal(p) ==
  /\ Running(p)
  /\ pc[p] \in {"c_sigint", "c_sigquit", "c_sigtstp", "c_sigttin", "c_sigttou"}
  /\ sig' = [sig EXCEPT ![p][ChildSignalOf(pc[p])] = "SIG_DFL"]
  /\ Goto(p, ChildNext(pc[p]))
  /\ UNCHANGED <<pstate, tstatus, parent, pgid, execd, tty_fg, sh, loc,
                 history, cwd, stderr, env, io, nlines>>

\* main.c 83: the image is replaced, or execvp returns
ChildExecvp(p) ==
  /\ Running(p) /\ pc[p] = "c_execvp"
  /\ \/ /\ loc[p].cmd # <<>> /\ CanExec(loc[p].cmd[1])
        /\ execd' = [execd EXCEPT ![p] = TRUE]
        /\ Goto(p, "image")
     \/ /\ loc[p].cmd = <<>> \/ CanFailExec(loc[p].cmd[1])
        /\ Goto(p, "c_perror")
        /\ UNCHANGED execd
  /\ UNCHANGED <<pstate, tstatus, parent, pgid, sig, tty_fg, sh, loc, history,
                 cwd, stderr, env, io, nlines>>

\* main.c 85
ChildPerror(p) ==
  /\ Running(p) /\ pc[p] = "c_perror"
  /\ stderr' = stderr \cup {<<p, "execvp failed">>}
  /\ Goto(p, "c_exit")
  /\ UNCHANGED <<kernel, sh, loc, history, cwd, env, io, nlines>>

\* the child branch without its exit: control falls into the parent branch
ChildExit_fallthrough(p) ==
  /\ Running(p) /\ pc[p] = "c_exit"
  /\ Goto(p, "p_setpgid")
  /\ UNCHANGED <<kernel, sh, loc, history, cwd, stderr, env, io, nlines>>

\* main.c 86
ChildExit(p) ==
  /\ Running(p) /\ pc[p] = "c_exit"
  /\ Terminate(p, Exited(EXIT_FAILURE))
  /\ UNCHANGED <<parent, tty_fg, sh, history, cwd, stderr, env, io, nlines>>


\* ----------------------------------------------------------- parent branch
\* main.c 100
ParentSetpgid(p) ==
  /\ Running(p) /\ pc[p] = "p_setpgid"
  /\ pgid' = setpgid_new(p, loc[p].pid)
  /\ Goto(p, "p_tcsetpgrp")
  /\ UNCHANGED <<pstate, tstatus, parent, sig, execd, tty_fg, sh, loc, history,
                 cwd, stderr, env, io, nlines>>

\* main.c 101
ParentTcsetpgrp(p) ==
  /\ Running(p) /\ pc[p] = "p_tcsetpgrp"
  /\ tcsetpgrp(p, loc[p].pid)
  /\ IF tcsetpgrp_returns(p, loc[p].pid) THEN Goto(p, "p_waitpid")
     ELSE UNCHANGED pc
  /\ UNCHANGED <<parent, pgid, sig, execd, sh, loc, history, cwd, stderr, env, io,
                 nlines>>

\* the children of p that waitpid(t, ...) selects
WaitSet(p, t) ==
  { c \in Children : /\ parent[c] = p /\ InTable(c)
                     /\ (t > 0 => c = t)
                     /\ (t = 0 => pgid[c] = pgid[p]) }

\* waitpid with WNOHANG: as Waitpid, but 0 is returned at once while the
\* child has not terminated
Waitpid_wnohang(p) ==
  /\ Running(p) /\ pc[p] = "p_waitpid"
  /\ LET w == WaitSet(p, loc[p].pid) IN
     \/ /\ w = {}
        /\ loc' = [loc EXCEPT ![p].rval = -1]
        /\ Goto(p, "p_wait_failed")
        /\ UNCHANGED <<pstate, tstatus, pgid, execd>>
     \/ \E c \in w :
        /\ pstate[c] = "zombie"
        /\ pstate' = [pstate EXCEPT ![c] = "reaped"]
        /\ tstatus' = [tstatus EXCEPT ![c] = NoStatus]
        /\ pgid' = [pgid EXCEPT ![c] = NoPid]
        /\ execd' = [execd EXCEPT ![c] = FALSE]
        /\ loc' = [loc EXCEPT ![p].rval = c, ![p].status = tstatus[c]]
        /\ Goto(p, "cmd_free")
     \/ /\ w # {} /\ \A c \in w : pstate[c] # "zombie"
        /\ loc' = [loc EXCEPT ![p].rval = 0]
        /\ Goto(p, "cmd_free")
        /\ UNCHANGED <<pstate, tstatus, pgid, execd>>
  /\ UNCHANGED <<parent, sig, tty_fg, sh, history, cwd, stderr, env, io, nlines>>

\* main.c 103-104: waitpid(pid, &status, 0) returns the pid of a terminated
\* child, whose status it stores, or -1 (ECHILD) when there is no such child;
\* with options 0 it blocks while the child runs or is stopped
Waitpid(p) ==
  /\ Running(p) /\ pc[p] = "p_waitpid"
  /\ LET w == WaitSet(p, loc[p].pid) IN
     \/ /\ w = {}
        /\ loc' = [loc EXCEPT ![p].rval = -1]
        /\ Goto(p, "p_wait_failed")
        /\ UNCHANGED <<pstate, tstatus, pgid, execd>>
     \/ \E c \in w :
        /\ pstate[c] = "zombie"
        /\ pstate' = [pstate EXCEPT ![c] = "reaped"]
        /\ tstatus' = [tstatus EXCEPT ![c] = NoStatus]
        /\ pgid' = [pgid EXCEPT ![c] = NoPid]
        /\ execd' = [execd EXCEPT ![c] = FALSE]
        /\ loc' = [loc EXCEPT ![p].rval = c, ![p].status = tstatus[c]]
        /\ Goto(p, "cmd_free")
  /\ UNCHANGED <<parent, sig, tty_fg, sh, history, cwd, stderr, env, io, nlines>>

\* the values an int that was never written can hold, by what the W* macros
\* make of them
StatusValues ==
  {Exited(0), Exited(1), Signaled("SIGINT"), Stopped("SIGTSTP"), Continued}

\* main.c 14-32: the lines explain_waitpid prints for a status
explain_waitpid(st) ==
  (IF ~(st.kind = "exited") THEN {"Child exited with status"} ELSE {})
  \cup (IF st.kind = "signaled" THEN {"Child exited via signal"} ELSE {})
  \cup (IF st.kind = "stopped" THEN {"Child stopped by"} ELSE {})
  \cup (IF st.kind = "continued" THEN {"Child was resumed by delivery of SIGCONT"}
        ELSE {})

\* the failure branch ending in `continue`
WaitFailed_continue(p) ==
  /\ Running(p) /\ pc[p] = "p_wait_failed"
  /\ \E st \in (IF loc[p].status = Uninit THEN StatusValues ELSE {loc[p].status}) :
       stderr' = stderr \cup {<<p, "Wait pid failed with -1">>}
                        \cup {<<p, m>> : m \in explain_waitpid(st)}
  /\ Goto(p, "free_line")
  /\ UNCHANGED <<kernel, sh, loc, history, cwd, env, io, nlines>>

\* main.c 106-107
WaitFailed(p) ==
  /\ Running(p) /\ pc[p] = "p_wait_failed"
  /\ \E st \in (IF loc[p].status = Uninit THEN StatusValues ELSE {loc[p].status}) :
       stderr' = stderr \cup {<<p, "Wait pid failed with -1">>}
                        \cup {<<p, m>> : m \in explain_waitpid(st)}
  /\ Goto(p, "cmd_free")
  /\ UNCHANGED <<kernel, sh, loc, history, cwd, env, io, nlines>>

\* main.c 110
CmdFree(p) ==
  /\ Running(p) /\ pc[p] = "cmd_free"
  /\ loc' = [loc EXCEPT ![p].cmd = <<>>]
  /\ heap' = [heap EXCEPT !.cmd = @ - 1]
  /\ Goto(p, "reclaim")
  /\ UNCHANGED <<kernel, sh, history, cwd, stderr, env, typed, stdout, nlines>>

\* the parent branch without the reclaiming tcsetpgrp
Reclaim_skipped(p) ==
  /\ Running(p) /\ pc[p] = "reclaim"
  /\ Goto(p, "free_line")
  /\ UNCHANGED <<kernel, sh, loc, history, cwd, stderr, env, io, nlines>>

\* main.c 112
Reclaim(p) ==
  /\ Running(p) /\ pc[p] = "reclaim"
  /\ tcsetpgrp(p, sh.shell_pgid)
  /\ IF tcsetpgrp_returns(p, sh.shell_pgid) THEN Goto(p, "free_line")
     ELSE UNCHANGED pc
  /\ UNCHANGED <<parent, pgid, sig, execd, sh, loc, history, cwd, stderr, env, io,
                 nlines>>

\* main.c 114: free(line), and the block's locals go out of scope
FreeLine(p) ==
  /\ Running(p) /\ pc[p] = "free_line"
  /\ free_line(p, loc[p].off, "readline")
  /\ UNCHANGED <<parent, tty_fg, sh, history, cwd, stderr, env, typed, stdout,
                 nlines>>

\* main.c 117 with lab.c 47-55
ShDestroy(p) ==
  /\ Running(p) /\ pc[p] = "sh_destroy"
  /\ sh' = [sh EXCEPT !.prompt = "freed"]
  /\ Goto(p, "exit")
  /\ UNCHANGED <<kernel, loc, history, cwd, stderr, env, io, nlines>>

\* main.c 119
Exit(p) ==
  /\ Running(p) /\ pc[p] = "exit"
  /\ Terminate(p, Exited(EXIT_SUCCESS))
  /\ UNCHANGED <<parent, tty_fg, sh, history, cwd, stderr, env, io, nlines>>

\* ------------------------------------------------- the external program
\* the program execvp started ends with an exit code
ImageExit(p) ==
  /\ Running(p) /\ pc[p] = "image"
  /\ \E code \in ExitCodes : Terminate(p, Exited(code))
  /\ UNCHANGED <<parent, tty_fg, sh, history, cwd, stderr, env, io, nlines>>

\* ------------------------------------------------------------- environment
\* the running members of the foreground group that do not ignore s
Hit(s) == {q \in Pids : Running(q) /\ pgid[q] = tty_fg /\ sig[q][s] = "SIG_DFL"}

\* ^C, ^\ or ^Z typed: the terminal sends s to its foreground group
Keyboard(s) ==
  /\ Hit(s) # {}
  /\ IF s \in StopSignals
     THEN /\ pstate' = [q \in Pids |-> IF q \in Hit(s) THEN "stopped" ELSE pstate[q]]
          /\ tstatus' = [q \in Pids |-> IF q \in Hit(s) THEN Stopped(s) ELSE tstatus[q]]
          /\ UNCHANGED <<pc, pgid, execd, sig, loc>>
     ELSE KillSet(Hit(s), Signaled(s))
  /\ UNCHANGED <<parent, tty_fg, sh, history, cwd, stderr, env, io, nlines>>

\* SIGKILL sent to a child from outside the session's terminal
ExternalKill(c) ==
  /\ c \in Children /\ Alive(c)
  /\ Terminate(c, Signaled("SIGKILL"))
  /\ UNCHANGED <<parent, tty_fg, sh, history, cwd, stderr, env, io, nlines>>

\* SIGCONT sent to a stopped child from outside the session's terminal
ExternalCont(c) ==
  /\ c \in Children /\ pstate[c] = "stopped"
  /\ pstate' = [pstate EXCEPT ![c] = "running"]
  /\ tstatus' = [tstatus EXCEPT ![c] = Continued]
  /\ UNCHANGED <<pc, parent, pgid, sig, execd, tty_fg, sh, loc, history, cwd,
                 stderr, env, io, nlines>>

\* the launching shell's fg: the stopped shell is continued in the foreground
LauncherForeground ==
  /\ pstate[ShellPid] = "stopped"
  /\ pstate' = [pstate EXCEPT ![ShellPid] = "running"]
  /\ tstatus' = [tstatus EXCEPT ![ShellPid] = Continued]
  /\ tty_fg' = pgid[ShellPid]
  /\ UNCHANGED <<pc, parent, pgid, sig, execd, sh, loc, history, cwd, stderr,
                 env, io, nlines>>

\* the launching shell takes the terminal back when its job, the shell, has
\* stopped
LauncherReclaim ==
  /\ pstate[ShellPid] = "stopped"
  /\ tty_fg = pgid[ShellPid] /\ tty_fg # LauncherPgid
  /\ tty_fg' = LauncherPgid
  /\ UNCHANGED <<pc, pstate, tstatus, parent, pgid, sig, execd, sh, loc,
                 history, cwd, stderr, env, io, nlines>>

\* the launching shell's bg: the stopped shell is continued where it is
LauncherBackground ==
  /\ pstate[ShellPid] = "stopped"
  /\ pstate' = [pstate EXCEPT ![ShellPid] = "running"]
  /\ tstatus' = [tstatus EXCEPT ![ShellPid] = Continued]
  /\ UNCHANGED <<pc, parent, pgid, sig, execd, tty_fg, sh, loc, history, cwd,
                 stderr, env, io, nlines>>

\* ------------------------------------------------------------ specification
Step(p) ==
  \/ ShInit(p) \/ InitLoop(p) \/ InitSetpgid(p) \/ SetupSignals(p)
  \/ Readline(p) \/ Trim(p) \/ AddHistory(p) \/ CmdParse(p) \/ DoBuiltin(p)
  \/ Fork(p) \/ ForkFailed(p)
  \/ ChildSetpgid(p) \/ ChildTcsetpgrp(p) \/ ChildSignal(p) \/ ChildExecvp(p)
  \/ ChildPerror(p) \/ ChildExit(p)
  \/ ParentSetpgid(p) \/ ParentTcsetpgrp(p) \/ Waitpid(p) \/ WaitFailed(p)
  \/ CmdFree(p) \/ Reclaim(p) \/ FreeLine(p) \/ ShDestroy(p) \/ Exit(p)
  \/ ImageExit(p)

Environment ==
  \/ \E s \in KeyboardSignals : Keyboard(s)
  \/ \E c \in Children : ExternalKill(c)
  \/ \E c \in Children : ExternalCont(c)
  \/ LauncherForeground
  \/ LauncherReclaim
  \/ LauncherBackground

Next == (\E p \in Pids : Step(p)) \/ Environment

Spec == Init /\ [][Next]_vars


\* ================================================================== claims
Builtins == {"exit", "cd", "jobs"}
\* the statements of the parent branch, main.c 100-112
ParentLabels ==
  {"p_setpgid", "p_tcsetpgrp", "p_waitpid", "p_wait_failed", "cmd_free",
   "reclaim"}
\* a foreground command has been launched
Launched == \E c \in Children : pstate[c] # "absent"
\* the children of the shell that are not reaped yet
Unreaped == {c \in Children : parent[c] = ShellPid /\ InTable(c)}

\* C1: on a terminal, whenever the shell is about to show the prompt after
\* a foreground command was launched (whatever became of the child: exit
\* with any code, exec failure, death by signal), the terminal's foreground
\* process group is sh.shell_pgid, the shell's own group.
C1_ForegroundAtPrompt ==
  (pc[ShellPid] = "readline" /\ Running(ShellPid) /\ sh.shell_is_interactive
     /\ Launched)
  => (tty_fg = sh.shell_pgid /\ pgid[ShellPid] = sh.shell_pgid)

C1_Witness ==
  /\ pc[ShellPid] = "readline" /\ sh.shell_is_interactive
  /\ pstate[FirstChild] = "reaped" /\ tty_fg = sh.shell_pgid

\* C2: a process leaves the parent branch (main.c 100-112) for the rest of
\* the loop only through the reclaiming tcsetpgrp of line 112, also after
\* waitpid returned -1; on a terminal that call leaves sh.shell_pgid in the
\* foreground.
C2_ReclaimOnEveryPath ==
  [][\A p \in Pids :
       (pc[p] \in ParentLabels /\ pc'[p] \notin ParentLabels
          /\ pc'[p] # "exited")
       => /\ pc[p] = "reclaim"
          /\ pc'[p] = "free_line"
          /\ (env.isatty /\ p = ShellPid => tty_fg' = sh.shell_pgid)]_vars

C2_Witness ==
  /\ pc[ShellPid] = "free_line" /\ loc[ShellPid].rval = -1
  /\ env.isatty /\ tty_fg = sh.shell_pgid

\* C3: a line whose first argument is exit, cd or jobs never reaches fork
\* or the parent branch, whatever the built-in's result.
C3_BuiltinNeverForks ==
  \A p \in Pids :
    (pc[p] \in {"fork", "fork_failed", "p_setpgid"} /\ loc[p].cmd # <<>>)
    => loc[p].cmd[1] \notin Builtins

\* the child has changed state: it terminated, was stopped or was resumed
ChildChanged(c) ==
  \/ pstate[c] \in {"zombie", "reaped"}
  \/ tstatus[c].kind \in {"stopped", "continued"}

\* C4: while the parent is in its wait, any change of the child's state
\* (exit, death by signal, stop, resumption) lets the wait return.
C4_WaitReturnsOnStateChange ==
  \A p \in Pids :
    (pc[p] = "p_waitpid" /\ Running(p) /\ loc[p].pid \in Children
       /\ ChildChanged(loc[p].pid))
    => ENABLED Waitpid(p)

\* C5: the shell never has more than one child it has not reaped, and it
\* calls fork only when it has none.
C5_AtMostOneUnreaped ==
  /\ Cardinality(Unreaped) <= 1
  /\ pc[ShellPid] = "fork" => Unreaped = {}

C5_Witness ==
  /\ pc[ShellPid] = "p_waitpid"
  /\ pstate[FirstChild] = "reaped"
  /\ Alive(FirstChild + 1)


\* a child that has replaced its image leads its own group, the foreground
\* group of the terminal
C6_AtExec ==
  \A c \in Children :
    (execd[c] /\ InTable(c)) => (pgid[c] = c /\ (env.isatty => tty_fg = c))

\* a setpgid or tcsetpgrp that finds its work done changes nothing
C6_LaterCallNoOp ==
  \A c \in Children :
    LET s == parent[c] IN
    /\ (ChildSetpgid(c) /\ pgid[c] = c) => UNCHANGED <<pgid, tty_fg, pstate>>
    /\ (ChildTcsetpgrp(c) /\ tty_fg = c) => UNCHANGED <<pgid, tty_fg, pstate>>
    /\ (s \in Pids /\ loc[s].pid = c /\ ParentSetpgid(s) /\ pgid[c] = c)
         => UNCHANGED <<pgid, tty_fg, pstate>>
    /\ (s \in Pids /\ loc[s].pid = c /\ ParentTcsetpgrp(s) /\ tty_fg = c)
         => UNCHANGED <<pgid, tty_fg, pstate>>

\* C6: once a child has replaced its image, and until it is reaped (the
\* parent reclaims the terminal only after that), its process group id is
\* its own pid and, on a terminal, that group is the foreground group, in
\* every interleaving of the two setpgid and the two tcsetpgrp calls; and
\* whichever of the redundant calls comes later (the group, or the
\* foreground group, is already the child's) changes nothing.
C6_HandoffIdempotent == []C6_AtExec /\ [][C6_LaterCallNoOp]_vars

C6_Witness ==
  /\ execd[FirstChild] /\ Running(FirstChild) /\ env.isatty
  /\ pc[ShellPid] = "p_setpgid"
  /\ pgid[FirstChild] = FirstChild /\ tty_fg = FirstChild

\* how far a child has come in its branch: ChildDone(c, label) when the
\* child has executed the statement `label`
ChildPos(l) == CHOOSE j \in 1..Len(ChildSteps) : ChildSteps[j] = l
InChildBranch(c) == c \in Children /\ Alive(c) /\ ~execd[c]
                      /\ pc[c] \in ChildLabels
ChildDone(c, label) ==
  label \in ChildLabels /\ ChildPos(pc[c]) > ChildPos(label)
SignalLabels == {"c_sigint", "c_sigquit", "c_sigtstp", "c_sigttin", "c_sigttou"}

\* C7 as stated: the child restores the five default dispositions before it
\* calls setpgid and tcsetpgrp.
C7_SignalsRestoredFirst ==
  \A c \in Children :
    (InChildBranch(c)
       /\ (ChildDone(c, "c_setpgid") \/ ChildDone(c, "c_tcsetpgrp")))
    => sig[c] = AllDefault

\* C7 amended: the child first makes itself its own process-group leader,
\* then requests the foreground for that group, and only then restores the
\* default disposition of the five job-control signals (until then all five
\* are still ignored); all of this is done, and all five are default, when
\* the image is replaced.
C7_GroupAndTerminalFirst ==
  \A c \in Children :
    InChildBranch(c) =>
      /\ ChildDone(c, "c_tcsetpgrp") => ChildDone(c, "c_setpgid")
      /\ (\E l \in SignalLabels : ChildDone(c, l))
           => (ChildDone(c, "c_setpgid") /\ ChildDone(c, "c_tcsetpgrp"))
      /\ ~(ChildDone(c, "c_setpgid") /\ ChildDone(c, "c_tcsetpgrp"))
           => sig[c] = AllIgnored
      /\ pc[c] = "c_execvp"
           => /\ sig[c] = AllDefault /\ pgid[c] = c
              /\ \A l \in ChildLabels \ {"c_execvp"} : ChildDone(c, l)
              /\ {"c_setpgid", "c_tcsetpgrp"} \cup SignalLabels \subseteq ChildLabels

C7_Witness ==
  /\ pc[FirstChild] = "c_sigint" /\ Running(FirstChild)
  /\ sig[FirstChild] = AllIgnored
  /\ pgid[FirstChild] = FirstChild /\ tty_fg = FirstChild

\* the shell ignores the five signals while a child's group is in the
\* foreground; a child at and after its image replacement has them at default
C8_ShellIgnores ==
  /\ (Alive(ShellPid) /\ \E c \in Children : InTable(c) /\ pgid[c] = tty_fg)
       => sig[ShellPid] = AllIgnored
  /\ \A c \in Children :
       (Alive(c) /\ (pc[c] = "c_execvp" \/ execd[c])) => sig[c] = AllDefault

\* a signal() call of a child changes that one disposition of the child only
C8_ChildRestoreIsLocal ==
  \A c \in Children :
    (pc[c] \in SignalLabels /\ pc'[c] # pc[c] /\ pc'[c] # "exited")
    => (sig'[c] = [sig[c] EXCEPT ![ChildSignalOf(pc[c])] = "SIG_DFL"]
        /\ \A q \in Pids \ {c} : sig'[q] = sig[q])

\* C8: whenever the group of a child is the terminal's foreground group the
\* shell ignores all five job-control signals; a child at its image
\* replacement, and after it, has all five at default; and no signal() call
\* of a child changes the dispositions of its parent.
C8_Dispositions == []C8_ShellIgnores /\ [][C8_ChildRestoreIsLocal]_vars

C8_Witness ==
  /\ execd[FirstChild] /\ Running(FirstChild) /\ tty_fg = FirstChild
  /\ pgid[FirstChild] = FirstChild
  /\ sig[FirstChild] = AllDefault /\ sig[ShellPid] = AllIgnored

\* the statements of main outside the fork block
LoopLabels ==
  {"sh_init", "init_loop", "init_setpgid", "setup_signals", "readline", "trim",
   "add_history", "cmd_parse", "do_builtin", "fork", "fork_failed",
   "free_line", "sh_destroy", "exit"}

\* no child is in the parent branch or the loop; the failure is reported
\* before the exit; the shell's wait and its later steps are enabled
C9_ChildStaysInBranch ==
  /\ \A c \in Children : pc[c] \notin ParentLabels \cup LoopLabels
  /\ \A c \in Children :
       (pc[c] = "c_exit" /\ Alive(c)) => <<c, "execvp failed">> \in stderr
  /\ \A c \in Children :
       (pstate[c] \in {"zombie", "reaped"} /\ loc[ShellPid].pid = c
          /\ pc[ShellPid] = "p_waitpid" /\ Running(ShellPid))
       => ENABLED Waitpid(ShellPid)
  /\ (pc[ShellPid] \in {"p_wait_failed", "cmd_free", "reclaim", "free_line"}
        /\ Running(ShellPid))
       => ENABLED Step(ShellPid)

\* the step of a child from main.c 86 ends it, with EXIT_FAILURE if it exits
C9_ExitFailure ==
  \A c \in Children :
    (pc[c] = "c_exit" /\ pc'[c] # "c_exit")
    => /\ pc'[c] = "exited"
       /\ pstate'[c] \in {"zombie", "reaped"}
       /\ (pstate'[c] = "zombie" /\ tstatus'[c].kind = "exited")
            => tstatus'[c] = Exited(EXIT_FAILURE)

\* C9: a child whose execvp returned reports the failure and terminates with
\* EXIT_FAILURE; no child is ever at a statement of the parent branch or of
\* the loop; and the parent's wait for a terminated child can return, after
\* which no step of the shell up to the next prompt can block.
C9_ExecFailure == []C9_ChildStaysInBranch /\ [][C9_ExitFailure]_vars

C9_Witness ==
  /\ pc[ShellPid] = "reclaim" /\ loc[ShellPid].rval = FirstChild
  /\ loc[ShellPid].status = Exited(EXIT_FAILURE)
  /\ <<FirstChild, "execvp failed">> \in stderr

\* a line `cd <path>` whose target chdir cannot enter
IsBadCd(l) ==
  LET a == cmd_parse(l) IN
  Len(a) >= 2 /\ a[1] = "cd" /\ chdir_rc(a[2]) = -1

\* the shell has written a message to stderr since the last prompt
ShellReported == \E e \in stderr : e[1] = ShellPid

C10_Reported ==
  (pc[ShellPid] = "free_line" /\ IsBadCd(loc[ShellPid].line))
  => (Running(ShellPid) /\ ShellReported)

C10_CwdKept ==
  (pc[ShellPid] = "do_builtin" /\ IsBadCd(loc[ShellPid].line)
     /\ pc'[ShellPid] # "do_builtin")
  => (cwd' = cwd /\ Running(ShellPid)')

\* C10: dispatching a line `cd <path>` whose target chdir cannot enter
\* leaves the working directory as it was and the shell running, and when
\* the line has been dealt with, before the next prompt, the shell has
\* reported an error.
C10_BadCdReported == []C10_Reported /\ [][C10_CwdKept]_vars

\* the shell dispatches a `cd` line that has no argument
CdNoArgStep ==
  /\ pc[ShellPid] = "do_builtin" /\ loc[ShellPid].cmd = <<"cd">>
  /\ pc'[ShellPid] # "do_builtin"

\* the half of C11 about a HOME that is set: the working directory becomes
\* the value of HOME
C11_HomeSet ==
  [][(CdNoArgStep /\ env.HOME # "NULL") => cwd' = env.HOME]_vars

\* C11: for `cd` with no argument, if HOME is set the working directory
\* becomes the value of HOME; if HOME is unset the working directory becomes
\* the home directory recorded in the password database for the current
\* user, and no error is reported.
C11_CdNoArgument ==
  [][CdNoArgStep =>
       /\ cwd' = (IF env.HOME = "NULL" THEN PwDir ELSE env.HOME)
       /\ (env.HOME = "NULL" => ~ShellReported')]_vars

\* the shell process has ended on an `exit` line: the last line read is
\* `exit`, and nothing is read after its dispatch
ExitedByExitLine ==
  /\ pc[ShellPid] = "exited"
  /\ typed # <<>> /\ cmd_parse(trim_white(typed[Len(typed)])) = <<"exit">>

\* the parts of C12 about the termination itself: status 0
C12_StatusZero == ExitedByExitLine => tstatus[ShellPid] = Exited(0)
\* the Session is torn down: sh_destroy has released the prompt
C12_TornDown == ExitedByExitLine => sh.prompt = "freed"
\* once ended, the shell shows no prompt, reads no line and forks no child
C12_NothingAfter ==
  pc[ShellPid] = "exited" =>
    /\ pc'[ShellPid] = "exited"
    /\ typed' = typed /\ nlines' = nlines /\ history' = history
    /\ \A c \in Children : pstate[c] = "absent" => pstate'[c] = "absent"
C12_Terminates == []C12_StatusZero /\ [][C12_NothingAfter]_vars

\* C12: on an `exit` line the shell first tears down the Session (sh_destroy
\* releases the prompt), then terminates with status 0; after the `exit` line
\* is dispatched no further prompt is displayed, no line is read and no
\* child is forked.
C12_ExitTearsDownSession ==
  [](C12_TornDown /\ C12_StatusZero) /\ [][C12_NothingAfter]_vars

\* a line that is empty or holds nothing but blanks
IsBlank(l) == \A i \in 1..Len(l) : l[i] = SP
\* the statements of an iteration behind the test of main.c 60
DispatchLabels ==
  {"add_history", "cmd_parse", "do_builtin", "fork", "fork_failed", "free_line"}
    \cup ParentLabels
\* the line of the current iteration, as it was typed
LastTyped == typed[Len(typed)]

\* no statement behind the test is reached with a blank line
C13_BlankNeverDispatched ==
  (pc[ShellPid] \in DispatchLabels) => (typed # <<>> /\ ~IsBlank(LastTyped))
\* the iteration of a blank line is the one step from main.c 59 back to the
\* prompt, and it leaves history, argument vector, output, directory and
\* children as they are
C13_BlankIteration ==
  (pc[ShellPid] = "trim" /\ IsBlank(loc[ShellPid].line) /\ pc'[ShellPid] # "trim")
    => /\ pc'[ShellPid] \in {"readline", "exited"}
       /\ history' = history
       /\ loc'[ShellPid].cmd = <<>> /\ heap'.cmd = heap.cmd
       /\ stdout' = stdout /\ stderr' = stderr /\ cwd' = cwd
       /\ \A c \in Children : pstate'[c] = pstate[c] /\ parent'[c] = parent[c]

\* C13: for every input line that is empty or consists only of whitespace,
\* the loop iteration adds no history entry, parses no argument vector, calls
\* no built-in and forks no child; history length and the set of child
\* processes are unchanged by that iteration.
C13_BlankLineFrame ==
  []C13_BlankNeverDispatched /\ [][C13_BlankIteration]_vars

\* a whitespace-only line was read after a command and the shell is back at
\* the prompt with the history it had
C13_Witness ==
  /\ pc[ShellPid] = "readline" /\ Len(typed) = 2
  /\ LastTyped = <<SP>> /\ history = <<typed[1]>>

\* a line without the blanks around it
Strip(l) ==
  LET nb == {i \in 1..Len(l) : l[i] # SP} IN
  IF nb = {} THEN <<>>
  ELSE SubSeq(l, CHOOSE i \in nb : \A j \in nb : i <= j,
                 CHOOSE i \in nb : \A j \in nb : j <= i)
\* the non-blank lines of t, in order, each without the blanks around it
RECURSIVE NonBlank(_)
NonBlank(t) ==
  IF t = <<>> THEN <<>>
  ELSE (IF IsBlank(Head(t)) THEN <<>> ELSE <<Strip(Head(t))>>)
         \o NonBlank(Tail(t))
\* the lines whose add_history call, if any, is behind the shell
Recorded ==
  IF pc[ShellPid] \in {"trim", "add_history"}
  THEN SubSeq(typed, 1, Len(typed) - 1) ELSE typed

\* the history is the non-blank input so far, in order
C14_HistoryIsInput == history = NonBlank(Recorded)
\* a line is in the history when it is parsed and dispatched
C14_RecordedBeforeDispatch ==
  (pc[ShellPid] \in {"cmd_parse", "do_builtin"}) =>
    (history # <<>> /\ history[Len(history)] = Strip(LastTyped))
\* behind a `jobs` dispatch the output is the whole history, the `jobs` line
\* included, one entry per line, numbered 1, 2, ...
C14_JobsPrintsHistory ==
  (pc[ShellPid] = "free_line" /\ loc[ShellPid].cmd = <<"jobs">>) =>
    /\ stdout = [i \in 1..Len(history) |-> <<i, history[i]>>]
    /\ stdout[Len(stdout)][2] = <<"jobs">>

\* C14: after any sequence of input lines, the history holds exactly the
\* non-blank lines in the order entered, each recorded before its own
\* dispatch (so a `jobs` line is already in the list it prints), and `jobs`
\* prints them one per line in chronological order numbered from 1.
C14_HistoryAndJobs ==
  C14_HistoryIsInput /\ C14_RecordedBeforeDispatch /\ C14_JobsPrintsHistory

\* `jobs` has printed two entries, the first a line typed with blanks around it
C14_Witness ==
  /\ pc[ShellPid] = "free_line" /\ loc[ShellPid].cmd = <<"jobs">>
  /\ typed = << <<SP, "ls", SP, SP, "-la", SP>>, <<"jobs">> >>
  /\ stdout = << <<1, <<"ls", SP, SP, "-la">> >>, <<2, <<"jobs">> >> >>

\* the statements of sh_init
InitLabels == {"sh_init", "init_loop", "init_setpgid"}
\* sh_init has returned and the shell is alive
InitReturned == Alive(ShellPid) /\ pc[ShellPid] \notin InitLabels

\* C15: whenever sh_init returns (interactive or not, and whatever process
\* group the shell was started in), sh.shell_pgid equals the shell's own
\* process id and the shell is the leader of its own process group; this
\* stays true in every later state of the read-eval loop.
C15_ShellLeadsOwnGroup ==
  InitReturned => (sh.shell_pgid = ShellPid /\ pgid[ShellPid] = ShellPid)

\* sh_init has just returned without a terminal, the launcher's group being
\* the foreground group
C15_Witness ==
  /\ pc[ShellPid] = "setup_signals" /\ Running(ShellPid) /\ ~env.isatty
  /\ tty_fg = LauncherPgid
  /\ sh.shell_pgid = ShellPid /\ pgid[ShellPid] = ShellPid

\* on a terminal the loop is left, towards setpgid, only when the shell's
\* group is the foreground group
C16_WaitThenLead ==
  (pc[ShellPid] = "init_loop" /\ pc'[ShellPid] = "init_setpgid"
     /\ sh.shell_is_interactive)
    => tty_fg = pgid[ShellPid] /\ sh'.shell_pgid = pgid[ShellPid]
\* on a terminal sh_init returns with the terminal owned by the shell's group
C16_ForegroundAtReturn ==
  (pc[ShellPid] = "setup_signals" /\ Running(ShellPid)
     /\ sh.shell_is_interactive)
    => tty_fg = sh.shell_pgid

\* C16: on an interactive terminal, sh_init performs its steps in the order:
\* wait (re-checking after each SIGTTIN) until the shell's group is the
\* terminal's foreground group, then make the shell its own process-group
\* leader, then take foreground terminal ownership for that group; so when
\* sh_init returns the terminal's foreground process group equals
\* sh.shell_pgid.
C16_InitTakesTerminal ==
  []C16_ForegroundAtReturn /\ [][C16_WaitThenLead]_vars
C16_Order == [][C16_WaitThenLead]_vars

\* the reports explain_waitpid has for an abnormal outcome
Advisories ==
  {"Child exited via signal", "Child stopped by",
   "Child was resumed by delivery of SIGCONT"}
\* waitpid has returned the foreground child's pid and stored its status
WaitReturned ==
  /\ pc[ShellPid] = "cmd_free"
  /\ loc[ShellPid].pid \in Children /\ loc[ShellPid].rval = loc[ShellPid].pid

\* an abnormal outcome of the wait is reported
C17_AbnormalReported ==
  (WaitReturned /\ loc[ShellPid].status.kind # "exited")
    => \E a \in Advisories : <<ShellPid, a>> \in stderr
\* a report is made of a status the wait call wrote
C17_ReportOfWrittenStatus ==
  (\E a \in Advisories : <<ShellPid, a>> \in stderr)
    => loc[ShellPid].status # Uninit
\* whatever the outcome, the shell goes on to release the vector and reclaim
\* the terminal
C17_SameNextStep ==
  (pc[ShellPid] \in {"p_waitpid", "p_wait_failed"} /\ pc'[ShellPid] # pc[ShellPid])
     => pc'[ShellPid] \in {"p_wait_failed", "cmd_free"}
C17_NextStepHolds == [][C17_SameNextStep]_vars

\* C17: whenever the wait call returns for a foreground child, the shell
\* classifies the reaped status (normal exit with a code, killed by signal,
\* stopped by signal, resumed) and emits the advisory report for an abnormal
\* outcome (signaled, stopped, resumed); the report is based on a status
\* value actually written by the wait call, and whichever outcome is reported
\* the next step is the same (reclaim the terminal, next prompt).
C17_WaitOutcomeReported ==
  [](C17_AbnormalReported /\ C17_ReportOfWrittenStatus)
    /\ [][C17_SameNextStep]_vars
C17_Unwritten == []C17_ReportOfWrittenStatus
C17_Abnormal == []C17_AbnormalReported

\* the shell is about to show the prompt
AtPrompt == pc[ShellPid] = "readline" /\ Running(ShellPid)

\* a vector handed to foreground execution is released by the next prompt:
\* every path through the fork block passes cmd_free
C18_ReleasedOnForegroundPath ==
  [][(pc[ShellPid] = "cmd_free" /\ pc'[ShellPid] = "reclaim")
       => heap'.cmd = heap.cmd - 1]_vars

\* C18: every argument vector produced by cmd_parse for an input line is
\* released with cmd_free exactly once before the next line is read, whether
\* the line was consumed by a built-in (cd, jobs) or by foreground execution;
\* the number of live argument vectors at each prompt is zero.
C18_NoLiveVectorAtPrompt == AtPrompt => heap.cmd = 0

\* the statements that call tcsetpgrp: main.c 77, 101, 112
TcsetpgrpLabels == {"c_tcsetpgrp", "p_tcsetpgrp", "reclaim"}
\* p is about to call tcsetpgrp from a group that is not the terminal's
\* foreground group
BackgroundCaller(p) ==
  /\ Running(p) /\ pc[p] \in TcsetpgrpLabels
  /\ env.isatty /\ pgid[p] # tty_fg

\* C19: every tcsetpgrp call made by a process that is not currently in the
\* terminal's foreground group (the child's own claim when it runs before
\* the parent's, and the parent's reclaim after the child finished) is made
\* while that process has SIGTTOU ignored, so no process is ever stopped by
\* its own terminal-handoff call and the handoff always makes progress.
C19_HandoffNeverStops ==
  /\ \A p \in Pids : BackgroundCaller(p) => sig[p]["SIGTTOU"] = "SIG_IGN"
  /\ \A p \in Pids : tstatus[p] # Stopped("SIGTTOU")
  /\ \A p \in Pids : (Running(p) /\ pc[p] \in TcsetpgrpLabels) =>
       /\ \A g \in Pids : tcsetpgrp_returns(p, g)
       /\ ENABLED (Step(p) /\ pc'[p] # pc[p])

\* the child makes its claim from its new group before the parent's call,
\* the shell's group still in the foreground
C19_Witness ==
  /\ BackgroundCaller(FirstChild) /\ pc[FirstChild] = "c_tcsetpgrp"
  /\ pc[ShellPid] \in {"p_setpgid", "p_tcsetpgrp"} /\ tty_fg = ShellPid
\* the shell reclaims the terminal from the group of a child that is gone
C19_WitnessReclaim ==
  /\ BackgroundCaller(ShellPid) /\ pc[ShellPid] = "reclaim"
  /\ tty_fg = FirstChild /\ ~InTable(FirstChild)

\* the shell executes one of main's two free(line) calls: main.c 62 for a
\* blank line, main.c 114 for the others
FreesLine ==
  /\ \/ pc[ShellPid] = "trim" /\ trim_white(loc[ShellPid].line) = <<>>
     \/ pc[ShellPid] = "free_line"
  /\ pc'[ShellPid] # pc[ShellPid]
\* how far the address passed to that call lies behind the address readline
\* returned
FreedOffset ==
  IF pc[ShellPid] = "trim" THEN trim_offset(loc[ShellPid].line)
  ELSE loc[ShellPid].off

\* the address freed is the one readline returned, and the call releases
\* the buffer
C20_FreesWhatReadlineReturned ==
  FreesLine => (FreedOffset = 0 /\ heap'.line = heap.line - 1)
\* every buffer has been released when the next line is read
C20_NoLiveLineAtPrompt == AtPrompt => heap.line = 0
\* a line typed without blanks in front is freed at readline's address
C20_UnindentedLineFreed ==
  [][(FreesLine /\ typed # <<>> /\ (LastTyped = <<>> \/ LastTyped[1] # SP))
       => (FreedOffset = 0 /\ heap'.line = heap.line - 1)]_vars

\* C20: for every input line (blank, with leading whitespace, or neither),
\* the address that main passes to free at the end of the iteration is
\* exactly the address readline returned for that line, and each line buffer
\* is freed exactly once.
C20_LineFreedOnce ==
  []C20_NoLiveLineAtPrompt /\ [][C20_FreesWhatReadlineReturned]_vars


====
